---- MODULE Spec2Model ----
(***************************************************************************)
(* Model of the BitGo webhook receiver: src/app.py (hardened handler with  *)
(* content-type, size and HMAC checks) and src/main.py (unhardened         *)
(* handler).  Strings that the code inspects character by character        *)
(* (signatures, secrets, content types) are sequences of one-character     *)
(* strings; request bodies are records that keep what the code looks at:   *)
(* the byte length, whether the bytes decode as UTF-8, the shape of the    *)
(* text for json.loads and the fields the handlers read.                   *)
(***************************************************************************)
EXTENDS Integers, Sequences, FiniteSets

VARIABLES env, req, pc, raw_body, sig, verified, data, log, resp, fault,
          m_done, m_resp, m_log, m_branch,
          v_body, v_sig, v_result

vars == <<env, req, pc, raw_body, sig, verified, data, log, resp, fault,
          m_done, m_resp, m_log, m_branch, v_body, v_sig, v_result>>

appVars == <<req, pc, raw_body, sig, verified, data, log, resp, fault>>
mainVars == <<m_done, m_resp, m_log, m_branch>>
verifyVars == <<v_body, v_sig, v_result>>

----------------------------------------------------------------------------
(* Bounds of the model *)

\* longest received signature string enumerated for the verifier
MaxSigLen == 4
\* number of hex characters of the modelled digest (64 in the program)
DigestLen == 2
\* the small configured MAX_CONTENT_LENGTH next to the default
SmallLimit == 16
\* byte length of an ordinary small body
ShortLen == 8

\* default of MAX_CONTENT_LENGTH
DefaultMaxContentLength == 1048576

MidLen == SmallLimit + 4
HugeLen == DefaultMaxContentLength + 1

----------------------------------------------------------------------------
(* Characters and Python's str operations on them *)

HexChars == {"a", "b"}
\* characters str.strip() removes: the space and the no-break space
Whitespace == {" ", "U+00A0"}
\* characters outside ASCII (header bytes 0xE9 and 0xA0 read as U+00E9, U+00A0)
NonAscii == {"U+00E9", "U+00A0"}
SigChars == HexChars \cup {"A", "="} \cup Whitespace \cup NonAscii

\* str.lower() on one character
LowerChar(c) ==
  CASE c = "A" -> "a"
    [] c = "B" -> "b"
    [] c = "J" -> "j"
    [] c = "S" -> "s"
    [] c = "O" -> "o"
    [] c = "N" -> "n"
    [] c = "P" -> "p"
    [] c = "L" -> "l"
    [] c = "I" -> "i"
    [] c = "C" -> "c"
    [] c = "T" -> "t"
    [] OTHER -> c

Lower(s) == [i \in 1..Len(s) |-> LowerChar(s[i])]

RECURSIVE LStrip(_)
LStrip(s) ==
  IF s # <<>> /\ Head(s) \in Whitespace THEN LStrip(Tail(s)) ELSE s

RECURSIVE RStrip(_)
RStrip(s) ==
  IF s # <<>> /\ s[Len(s)] \in Whitespace
  THEN RStrip(SubSeq(s, 1, Len(s) - 1)) ELSE s

\* str.strip()
Strip(s) == RStrip(LStrip(s))

\* t in s, for strings
Contains(s, t) ==
  \E i \in 1..(Len(s) - Len(t) + 1) : SubSeq(s, i, i + Len(t) - 1) = t

\* s.split("=", 1)[1] when "=" occurs in s
AfterFirstEq(s) ==
  LET i == CHOOSE j \in 1..Len(s) :
             s[j] = "=" /\ \A k \in 1..(j - 1) : s[k] # "="
  IN SubSeq(s, i + 1, Len(s))

IsAscii(s) == \A i \in 1..Len(s) : s[i] \notin NonAscii

RECURSIVE SeqsUpTo(_, _)
SeqsUpTo(S, n) ==
  IF n = 0 THEN {<<>>}
  ELSE LET shorter == SeqsUpTo(S, n - 1)
       IN shorter \cup {Append(s, c) : s \in {t \in shorter : Len(t) = n - 1}, c \in S}

----------------------------------------------------------------------------
(* JSON values as the handlers see them after json.loads *)

J(k, v) == [k |-> k, v |-> v]
Absent == J("absent", "")
Null == J("null", "")
EmptyDict == J("dict", "empty")
FullDict == J("dict", "amount_currency")

\* Python truthiness of a parsed value
Truthy(x) ==
  CASE x.k \in {"absent", "null"} -> FALSE
    [] x.k = "str" -> x.v # ""
    [] x.k = "num" -> x.v # "0"
    [] x.k = "bool" -> x.v = "true"
    [] x.k \in {"list", "dict"} -> x.v # "empty"
    [] OTHER -> TRUE

\* dict.get(key) on a top-level field: a missing key reads as None
Get(field) == IF field = Absent THEN Null ELSE field

\* dict.get(key, {}) on a top-level field
GetOrEmptyDict(field) == IF field = Absent THEN EmptyDict ELSE field

\* value.get(key) on the object under "value"
ValueGet(value, key) ==
  IF value = FullDict
  THEN (IF key = "amount" THEN J("str", "1.5") ELSE J("str", "BTC"))
  ELSE Null

TypeVals == {Absent, Null, J("str", "transfer"), J("str", "wallet_confirmation"),
             J("str", "block"), J("str", "deposit"), J("list", "nonempty")}
StateVals == {Absent, J("str", "confirmed"), J("str", "pending")}
ValueVals == {Absent, Null, EmptyDict, FullDict, J("str", "1.5"), J("num", "0"),
              J("list", "nonempty")}
HashVals == {Absent, J("str", "abc123")}
NonObjectVals == {J("list", "nonempty"), J("list", "empty"), J("num", "7"),
                  J("str", "x"), J("bool", "false"), Null}

Body(text, top, type, state, value, hash, len) ==
  [text |-> text, top |-> top, type |-> type, state |-> state,
   value |-> value, hash |-> hash, len |-> len]

PlainBody(text, len) == Body(text, Absent, Absent, Absent, Absent, Absent, len)
EmptyBody == PlainBody("empty", 0)
NonObjectBody(top, len) == Body("json", top, Absent, Absent, Absent, Absent, len)
ObjectBody(type, state, value, hash, len) ==
  Body("json", J("dict", "fields"), type, state, value, hash, len)

ObjectBodies ==
  {ObjectBody(J("str", "transfer"), J("str", "confirmed"), v, h, ShortLen) :
     v \in ValueVals, h \in HashVals}
  \cup {ObjectBody(t, s, Absent, Absent, ShortLen) : t \in TypeVals, s \in StateVals}
  \cup {ObjectBody(t, Absent, J("str", "1.5"), J("str", "abc123"), ShortLen) : t \in TypeVals}

LargeBodies ==
  {PlainBody("malformed", n) : n \in {MidLen, HugeLen}}
  \cup {NonObjectBody(J("list", "nonempty"), n) : n \in {MidLen, HugeLen}}
  \cup {ObjectBody(J("str", "block"), Absent, Absent, Absent, n) : n \in {MidLen, HugeLen}}

Bodies ==
  {EmptyBody, PlainBody("blank", ShortLen), PlainBody("malformed", ShortLen),
   PlainBody("bad_utf8", ShortLen)}
  \cup {NonObjectBody(x, ShortLen) : x \in NonObjectVals}
  \cup ObjectBodies \cup LargeBodies

\* bytes.decode("utf-8"): the text, or UnicodeDecodeError
Utf8Decodes(body) == body.text # "bad_utf8"

\* json.loads(text): JSONDecodeError for text that is no JSON document
\* (the empty string and whitespace included), the parsed value otherwise
JsonDecodeError(body) == body.text \in {"empty", "blank", "malformed"}

\* the parsed document: its top-level kind and the fields the handlers read
Parsed(top, type, state, value, hash) ==
  [top |-> top, type |-> type, state |-> state, value |-> value, hash |-> hash]
NoData == Parsed(Absent, Absent, Absent, Absent, Absent)
JsonLoads(body) == Parsed(body.top, body.type, body.state, body.value, body.hash)

\* a check that lets any JSON container through
IsDictOrList(d) == d.top.k \in {"dict", "list"}

\* isinstance(data, dict)
IsDict(d) == d.top.k = "dict"

----------------------------------------------------------------------------
(* Configuration read from the environment at start-up *)

Secrets == {<<>>, <<" ">>, <<"k">>, <<"j", " ">>}
MaxContentLengths == {SmallLimit, DefaultMaxContentLength}
Envs == [WEBHOOK_HMAC_SECRET : Secrets, MAX_CONTENT_LENGTH : MaxContentLengths]

HMAC_SECRET == Strip(env.WEBHOOK_HMAC_SECRET)
MAX_CONTENT_LENGTH == env.MAX_CONTENT_LENGTH

----------------------------------------------------------------------------
(* HMAC-SHA256 hex digest, abstracted to DigestLen hex characters that     *)
(* depend on the key and on every part of the body                         *)

CharNum(c) == CASE c = "k" -> 1 [] c = "j" -> 2 [] OTHER -> 3

RECURSIVE KeyNum(_)
KeyNum(key) == IF key = <<>> THEN 0 ELSE CharNum(Head(key)) + 2 * KeyNum(Tail(key))

AtomNum(x) ==
  CASE x.k = "absent" -> 0
    [] x.k = "null" -> 1
    [] x.k = "num" -> 2
    [] x.k = "bool" -> 3
    [] x.k = "list" -> (IF x.v = "empty" THEN 4 ELSE 5)
    [] x.k = "dict" -> (IF x.v = "empty" THEN 6 ELSE 7)
    [] x.v \in {"transfer", "confirmed", "abc123"} -> 8
    [] x.v \in {"block", "pending"} -> 9
    [] OTHER -> 10

TextNum(t) ==
  CASE t = "empty" -> 0 [] t = "blank" -> 1 [] t = "malformed" -> 2
    [] t = "bad_utf8" -> 3 [] OTHER -> 4

BodyNum(b) ==
  TextNum(b.text) + AtomNum(b.top) + 3 * AtomNum(b.type) + 5 * AtomNum(b.state)
  + 7 * AtomNum(b.value) + 11 * AtomNum(b.hash) + b.len

RECURSIVE Pow2(_)
Pow2(n) == IF n = 0 THEN 1 ELSE 2 * Pow2(n - 1)

\* hmac.new(key, body, hashlib.sha256).hexdigest(): lower-case hex
HexDigest(key, body) ==
  LET n == (KeyNum(key) + 3 * BodyNum(body)) % Pow2(DigestLen)
  IN [i \in 1..DigestLen |-> IF (n \div Pow2(i - 1)) % 2 = 0 THEN "a" ELSE "b"]

\* hmac.compare_digest(a, b) on str: TypeError unless both are ASCII
compare_digest(a, b) ==
  IF ~(IsAscii(a) /\ IsAscii(b)) THEN "TypeError"
  ELSE IF a = b THEN "true" ELSE "false"

\* the received signature with a "<algo>=" prefix dropped
strip_prefix(received_sig) ==
  IF \E i \in 1..Len(received_sig) : received_sig[i] = "="
  THEN AfterFirstEq(received_sig) ELSE received_sig

\* the received signature as it is compared
normalize_sig(received_sig) == Lower(Strip(strip_prefix(received_sig)))

\* the verifier without the .strip() of the received value
verify_without_strip(body, received_sig) ==
  IF HMAC_SECRET = <<>> THEN "true"
  ELSE IF received_sig = <<>> THEN "false"
  ELSE compare_digest(Lower(HexDigest(HMAC_SECRET, body)),
                      Lower(strip_prefix(received_sig)))

\* the verifier rejecting an empty signature before it looks at the secret
verify_empty_sig_first(body, received_sig) ==
  IF received_sig = <<>> THEN "false"
  ELSE IF HMAC_SECRET = <<>> THEN "true"
  ELSE compare_digest(Lower(HexDigest(HMAC_SECRET, body)),
                      normalize_sig(received_sig))

verify_hmac_sha256(body, received_sig) ==
  IF HMAC_SECRET = <<>> THEN "true"
  ELSE IF received_sig = <<>> THEN "false"
  ELSE compare_digest(Lower(HexDigest(HMAC_SECRET, body)),
                      normalize_sig(received_sig))

----------------------------------------------------------------------------
(* Requests *)

\* headers.get(name) of a header that was not sent
None == <<"<None>">>
\* request.content_length when no Content-Length was sent
NoLength == -1
\* no max_content_length configured (src/main.py)
NoLimit == -1

AppJson == <<"a","p","p","l","i","c","a","t","i","o","n","/","j","s","o","n">>
ContentTypes ==
  {<<>>, AppJson,
   <<"A","P","P","L","I","C","A","T","I","O","N","/","J","S","O","N">>,
   AppJson \o <<";", "q">>,
   <<"t","e","x","t","/","p","l","a","i","n">>}

\* the digest with its first character changed: a wrong signature
WrongDigest(d) == [d EXCEPT ![1] = IF d[1] = "a" THEN "b" ELSE "a"]

FirstHeaderValues(secret, body) ==
  {None, <<>>, HexDigest(secret, body), WrongDigest(HexDigest(secret, body)), <<"U+00E9">>}
SecondHeaderValues(secret, body) ==
  {None, <<"A", "=">> \o HexDigest(secret, body), WrongDigest(HexDigest(secret, body))}

Request(c, n, b, x, y) ==
  [ctype |-> c, content_length |-> n, body |-> b, h1 |-> x, h2 |-> y]

RequestsWith(b) ==
  {Request(c, n, b, x, y) :
     c \in ContentTypes, n \in {NoLength, b.len},
     x \in FirstHeaderValues(HMAC_SECRET, b),
     y \in SecondHeaderValues(HMAC_SECRET, b)}

Requests == UNION {RequestsWith(b) : b \in Bodies}

NoRequest == Request(<<>>, NoLength, EmptyBody, None, None)

\* What reading the request stream yields.  With a declared length the
\* body is exactly that many bytes.  Without one it is what the WSGI layer
\* hands over: nothing, the whole body, or (with a limit configured and
\* exceeded) a 413 raised from the read.
StreamOutcomes(r, limit) ==
  IF r.content_length # NoLength
  THEN {[kind |-> "bytes", body |-> r.body]}
  ELSE {[kind |-> "bytes", body |-> EmptyBody], [kind |-> "bytes", body |-> r.body]}
       \cup (IF limit # NoLimit /\ r.body.len > limit
             THEN {[kind |-> "too_large", body |-> EmptyBody]} ELSE {})

\* the part of a header value before its first ";"
RECURSIVE BeforeSemicolon(_)
BeforeSemicolon(s) ==
  IF s = <<>> \/ Head(s) = ";" THEN <<>> ELSE <<Head(s)>> \o BeforeSemicolon(Tail(s))

\* request.is_json: the mimetype is application/json
IsJsonMimetype(ctype) == Lower(Strip(BeforeSemicolon(ctype))) = AppJson

----------------------------------------------------------------------------
(* Responses and log entries *)

Resp(status, key, text) == [status |-> status, key |-> key, text |-> text]
NoResp == Resp(0, "", "")
LogEntry(level, msg, args) == [level |-> level, msg |-> msg, args |-> args]

\* the text a Python string evaluates to when it is falsy-or'ed with "{}"
OrEmptyObject(body) ==
  IF body.text = "empty"
  THEN ObjectBody(Absent, Absent, Absent, Absent, 2) ELSE body

----------------------------------------------------------------------------
(* src/app.py: POST /webhook/bitgo, one action per step of the handler *)

Idle ==
  /\ req = NoRequest /\ pc = "idle" /\ raw_body = EmptyBody /\ sig = <<>>
  /\ verified = "none" /\ data = NoData /\ log = <<>> /\ resp = NoResp
  /\ fault = "" /\ m_done = FALSE /\ m_resp = NoResp /\ m_log = <<>>
  /\ m_branch = ""

Init ==
  /\ env \in Envs
  /\ Idle
  /\ v_body = EmptyBody /\ v_sig = <<>> /\ v_result = "none"

\* a request arrives; the same request is delivered to both implementations
Receive ==
  /\ pc = "idle"
  /\ \E r \in Requests : req' = r
  /\ pc' = "ctype"
  /\ UNCHANGED <<env, raw_body, sig, verified, data, log, resp, fault, mainVars, verifyVars>>

content_type_ok(r) == Contains(Lower(r.ctype), AppJson)

CheckContentType ==
  /\ pc = "ctype"
  /\ IF content_type_ok(req)
     THEN pc' = "size" /\ resp' = resp
     ELSE /\ pc' = "done"
          /\ resp' = Resp(415, "error", "Unsupported media type; send application/json")
  /\ UNCHANGED <<env, req, raw_body, sig, verified, data, log, fault, mainVars, verifyVars>>

size_ok(r) ==
  ~(r.content_length # NoLength /\ r.content_length # 0
      /\ r.content_length > MAX_CONTENT_LENGTH)

CheckSize ==
  /\ pc = "size"
  /\ IF size_ok(req)
     THEN pc' = "read" /\ resp' = resp
     ELSE pc' = "done" /\ resp' = Resp(413, "error", "Payload too large")
  /\ UNCHANGED <<env, req, raw_body, sig, verified, data, log, fault, mainVars, verifyVars>>

ReadBody ==
  /\ pc = "read"
  /\ \E o \in StreamOutcomes(req, MAX_CONTENT_LENGTH) :
       IF o.kind = "bytes"
       THEN raw_body' = o.body /\ pc' = "verify" /\ resp' = resp /\ fault' = fault
       ELSE /\ raw_body' = raw_body /\ pc' = "done"
            /\ fault' = "RequestEntityTooLarge"
            /\ resp' = Resp(413, "html", "Request Entity Too Large")
  /\ UNCHANGED <<env, req, sig, verified, data, log, mainVars, verifyVars>>

\* the two headers read in the opposite order
received_signature_hub_first(r) ==
  IF r.h2 # None /\ r.h2 # <<>> THEN r.h2
  ELSE IF r.h1 = None THEN <<>> ELSE r.h1

\* headers.get("X-Signature-SHA256") or headers.get("X-Hub-Signature-256", "")
received_signature(r) ==
  IF r.h1 # None /\ r.h1 # <<>> THEN r.h1
  ELSE IF r.h2 = None THEN <<>> ELSE r.h2

VerifySignature ==
  /\ pc = "verify"
  /\ sig' = received_signature(req)
  /\ verified' = verify_hmac_sha256(raw_body, sig')
  /\ CASE verified' = "true" ->
            pc' = "parse" /\ log' = log /\ resp' = resp /\ fault' = fault
       [] verified' = "false" ->
            /\ pc' = "done" /\ fault' = fault
            /\ log' = Append(log, LogEntry("warning", "Webhook signature verification failed", <<>>))
            /\ resp' = Resp(401, "error", "Invalid signature")
       [] OTHER ->
            /\ pc' = "done" /\ log' = log /\ fault' = "TypeError"
            /\ resp' = Resp(500, "html", "Internal Server Error")
  /\ UNCHANGED <<env, req, raw_body, data, mainVars, verifyVars>>

ParseJson ==
  /\ pc = "parse"
  /\ IF ~Utf8Decodes(raw_body)
     THEN /\ pc' = "done" /\ fault' = "UnicodeDecodeError" /\ log' = log
          /\ data' = data
          /\ resp' = Resp(500, "html", "Internal Server Error")
     ELSE IF JsonDecodeError(OrEmptyObject(raw_body))
     THEN /\ pc' = "done" /\ fault' = fault /\ data' = data
          /\ log' = Append(log, LogEntry("error", "JSON parsing error", <<>>))
          /\ resp' = Resp(400, "error", "Invalid JSON format")
     ELSE /\ pc' = "isdict" /\ fault' = fault /\ log' = log /\ resp' = resp
          /\ data' = JsonLoads(OrEmptyObject(raw_body))
  /\ UNCHANGED <<env, req, raw_body, sig, verified, mainVars, verifyVars>>

CheckIsDict ==
  /\ pc = "isdict"
  /\ IF IsDict(data)
     THEN pc' = "classify" /\ resp' = resp
     ELSE pc' = "done" /\ resp' = Resp(400, "error", "JSON object required")
  /\ UNCHANGED <<env, req, raw_body, sig, verified, data, log, fault, mainVars, verifyVars>>

\* data.get("value", {}) or {}
value_or_empty(d) ==
  IF Truthy(GetOrEmptyDict(d.value)) THEN GetOrEmptyDict(d.value) ELSE EmptyDict

IsStr(x, s) == x = J("str", s)

\* the branch of the if/elif chain on (type, state)
event_branch(wtype, state) ==
  IF IsStr(wtype, "transfer") /\ IsStr(state, "confirmed") THEN "deposit"
  ELSE IF IsStr(wtype, "wallet_confirmation") THEN "wallet_confirmation"
  ELSE IF IsStr(wtype, "block") THEN "block"
  ELSE "other"

\* the log entries and outcome of lines 79-99 on a parsed object
classify(d) ==
  LET wtype == Get(d.type)
      state == Get(d.state)
      received == LogEntry("info", "Webhook received", <<wtype, state>>)
      branch == event_branch(wtype, state)
      value == value_or_empty(d)
  IN CASE branch = "deposit" /\ value.k # "dict" ->
            [fault |-> "AttributeError", log |-> <<received>>,
             resp |-> Resp(500, "html", "Internal Server Error")]
       [] branch = "deposit" /\ value.k = "dict" ->
            [fault |-> "",
             log |-> <<received,
                       LogEntry("info", "Deposit confirmed",
                                <<ValueGet(value, "amount"), ValueGet(value, "currency"),
                                  Get(d.hash)>>)>>,
             resp |-> Resp(200, "status", "OK")]
       [] branch = "wallet_confirmation" ->
            [fault |-> "",
             log |-> <<received, LogEntry("info", "Wallet confirmation received", <<>>)>>,
             resp |-> Resp(200, "status", "OK")]
       [] branch = "block" ->
            [fault |-> "",
             log |-> <<received, LogEntry("info", "New block notification", <<>>)>>,
             resp |-> Resp(200, "status", "OK")]
       [] OTHER ->
            [fault |-> "",
             log |-> <<received, LogEntry("info", "Other webhook type", <<wtype>>)>>,
             resp |-> Resp(200, "status", "OK")]

ClassifyAndRespond ==
  /\ pc = "classify"
  /\ LET out == classify(data)
     IN /\ log' = log \o out.log
        /\ resp' = out.resp
        /\ fault' = out.fault
  /\ pc' = "done"
  /\ UNCHANGED <<env, req, raw_body, sig, verified, data, mainVars, verifyVars>>

----------------------------------------------------------------------------
(* src/main.py: POST /webhook/bitgo, the whole handler as one action *)

\* request.get_json(): "none" for a body that is not declared as JSON (or
\* a 415 raised, by version), "error" for text that does not parse
get_json(r, body) ==
  IF ~IsJsonMimetype(r.ctype) THEN {"none", "error"}
  ELSE IF ~Utf8Decodes(body) \/ JsonDecodeError(body) THEN {"error"}
  ELSE IF JsonLoads(body).top = Null THEN {"none"}
  ELSE {"data"}

main_received ==
  <<LogEntry("info", "Raw request data", <<>>),
    LogEntry("info", "=== Webhook Received ===", <<>>),
    LogEntry("info", "Headers", <<>>),
    LogEntry("info", "JSON Data", <<>>),
    LogEntry("info", "=== End of Webhook ===", <<>>)>>

\* lines 39-58 of src/main.py on the parsed document
main_classify(d) ==
  LET webhook_type == Get(d.type)
      state == Get(d.state)
      branch == event_branch(webhook_type, state)
      value == GetOrEmptyDict(d.value)
  IN IF ~IsDict(d)
     THEN [branch |-> "", log |-> main_received \o <<LogEntry("error", "Unexpected error", <<>>)>>,
           resp |-> Resp(500, "error", "Internal server error")]
     ELSE IF branch = "deposit" /\ value.k # "dict"
     THEN [branch |-> branch,
           log |-> main_received \o <<LogEntry("info", "Deposit confirmed!", <<>>),
                                      LogEntry("error", "Unexpected error", <<>>)>>,
           resp |-> Resp(500, "error", "Internal server error")]
     ELSE IF branch = "deposit"
     THEN [branch |-> branch,
           log |-> main_received \o
                   <<LogEntry("info", "Deposit confirmed!", <<>>),
                     LogEntry("info", "Amount", <<ValueGet(value, "amount")>>),
                     LogEntry("info", "Currency", <<ValueGet(value, "currency")>>),
                     LogEntry("info", "Transaction ID", <<Get(d.hash)>>)>>,
           resp |-> Resp(200, "status", "OK")]
     ELSE IF branch = "wallet_confirmation"
     THEN [branch |-> branch,
           log |-> main_received \o <<LogEntry("info", "Wallet confirmation received", <<>>)>>,
           resp |-> Resp(200, "status", "OK")]
     ELSE IF branch = "block"
     THEN [branch |-> branch,
           log |-> main_received \o <<LogEntry("info", "New block notification", <<>>)>>,
           resp |-> Resp(200, "status", "OK")]
     ELSE [branch |-> branch,
           log |-> main_received \o <<LogEntry("info", "Other webhook type", <<webhook_type>>)>>,
           resp |-> Resp(200, "status", "OK")]

\* the outcome of the handler of src/main.py on the body it read
main_bitgo_webhook(r, body, parsed) ==
  CASE parsed = "none" ->
         [branch |-> "", log |-> <<LogEntry("info", "Raw request data", <<>>)>>,
          resp |-> Resp(400, "error", "Invalid JSON or no JSON data")]
    [] parsed = "error" ->
         [branch |-> "",
          log |-> <<LogEntry("info", "Raw request data", <<>>),
                    LogEntry("error", "JSON parsing error", <<>>)>>,
          resp |-> Resp(400, "error", "Invalid JSON format")]
    [] OTHER -> main_classify(JsonLoads(body))

MainWebhook ==
  /\ pc = "done" /\ ~m_done
  /\ \E o \in StreamOutcomes(req, NoLimit) :
       \E parsed \in get_json(req, o.body) :
         LET out == main_bitgo_webhook(req, o.body, parsed)
         IN /\ m_resp' = out.resp
            /\ m_log' = out.log
            /\ m_branch' = out.branch
  /\ m_done' = TRUE
  /\ UNCHANGED <<env, appVars, verifyVars>>

\* both implementations have answered: the next request may arrive
Complete ==
  /\ pc = "done" /\ m_done
  /\ req' = NoRequest /\ pc' = "idle"
  /\ raw_body' = EmptyBody /\ sig' = <<>> /\ verified' = "none"
  /\ data' = NoData /\ log' = <<>> /\ resp' = NoResp /\ fault' = ""
  /\ m_done' = FALSE /\ m_resp' = NoResp /\ m_log' = <<>> /\ m_branch' = ""
  /\ UNCHANGED <<env, verifyVars>>

Next ==
  \/ Receive
  \/ Complete
  \/ CheckContentType
  \/ CheckSize
  \/ ReadBody
  \/ VerifySignature
  \/ ParseJson
  \/ CheckIsDict
  \/ ClassifyAndRespond
  \/ MainWebhook

Spec == Init /\ [][Next]_vars

----------------------------------------------------------------------------
(* The signature verifier on its own: every received signature string up   *)
(* to MaxSigLen characters, against every configured secret                *)

SigStrings == SeqsUpTo(SigChars, MaxSigLen)
VerifyBodies ==
  {EmptyBody, PlainBody("malformed", ShortLen),
   ObjectBody(J("str", "block"), Absent, Absent, Absent, ShortLen)}

InitVerify ==
  /\ env \in Envs
  /\ Idle
  /\ v_body \in VerifyBodies
  /\ v_sig \in SigStrings
  /\ v_result = "none"

Verify ==
  /\ v_result = "none"
  /\ v_result' = verify_hmac_sha256(v_body, v_sig)
  /\ UNCHANGED <<env, appVars, mainVars, v_body, v_sig>>

NextVerify == Verify

SpecVerify == InitVerify /\ [][NextVerify]_vars

----------------------------------------------------------------------------
(* Properties *)

C1_Spaces(s) == \A i \in 1..Len(s) : s[i] \in Whitespace

C1_SameHex(core, digest) ==
  /\ Len(core) = Len(digest)
  /\ \A j \in 1..Len(core) : LowerChar(core[j]) = LowerChar(digest[j])

\* p is where an optional "<algo>=" prefix of s ends (0: no prefix)
C1_PrefixEnd(s, p) ==
  \/ p = 0 /\ \A k \in 1..Len(s) : s[k] # "="
  \/ p > 0 /\ s[p] = "=" /\ \A k \in 1..(p - 1) : s[k] # "="

\* s is the digest (in any case) after an optional prefix
C1_IsDigest(s, digest) ==
  \E p \in 0..Len(s) :
    C1_PrefixEnd(s, p) /\ C1_SameHex(SubSeq(s, p + 1, Len(s)), digest)

\* s is the digest (in any case) after an optional prefix, with white space
\* around the digest
C1_IsPaddedDigest(s, digest) ==
  \E p \in 0..Len(s) :
    /\ C1_PrefixEnd(s, p)
    /\ \E a \in p..Len(s), b \in p..Len(s) :
         /\ a <= b
         /\ C1_Spaces(SubSeq(s, p + 1, a))
         /\ C1_SameHex(SubSeq(s, a + 1, b), digest)
         /\ C1_Spaces(SubSeq(s, b + 1, Len(s)))

\* a non-ASCII character is left after the prefix is dropped and the
\* surrounding white space stripped
C1_NonAsciiLeft(s) ==
  \E p \in 0..Len(s) :
    /\ C1_PrefixEnd(s, p)
    /\ \E k \in (p + 1)..Len(s) :
         /\ s[k] \in NonAscii
         /\ \/ s[k] \notin Whitespace
            \/ /\ \E i \in (p + 1)..(k - 1) : s[i] \notin Whitespace
               /\ \E j \in (k + 1)..Len(s) : s[j] \notin Whitespace

\* C1 as stated: with a secret configured the verifier returns true exactly
\* for the hex digest, in any case, after an optional "algo=" prefix, and for
\* no other string.
C1_AcceptsExactlyTheDigest ==
  (v_result # "none" /\ HMAC_SECRET # <<>>) =>
     ((v_result = "true") <=> C1_IsDigest(v_sig, HexDigest(HMAC_SECRET, v_body)))

\* C1 amended: with a secret configured the verifier returns true exactly
\* for the hex digest, in any case, after an optional "algo=" prefix and
\* with optional white space around the digest; an empty signature returns
\* false; it raises TypeError exactly when a non-ASCII character is left
\* after the prefix is dropped and the white space stripped, and returns
\* false otherwise.
C1_AcceptsExactlyThePaddedDigest ==
  (v_result # "none" /\ HMAC_SECRET # <<>>) =>
     /\ (v_result = "true") <=> C1_IsPaddedDigest(v_sig, HexDigest(HMAC_SECRET, v_body))
     /\ v_sig = <<>> => v_result = "false"
     /\ (v_result = "TypeError") <=> C1_NonAsciiLeft(v_sig)

\* a signature with a prefix and white space before the digest is accepted
C1_Witness ==
  /\ HMAC_SECRET # <<>> /\ v_result = "true"
  /\ v_sig \in {<<"=", w>> \o HexDigest(HMAC_SECRET, v_body) : w \in Whitespace}

\* C2: with WEBHOOK_HMAC_SECRET empty the verifier returns true for every
\* body and signature, a missing one included, and the endpoint never
\* answers 401.
C2_NoSecretNoCheck ==
  env.WEBHOOK_HMAC_SECRET = <<>> =>
     /\ resp.status # 401
     /\ verified \in {"none", "true"}
     /\ \A s \in {<<>>, <<"U+00E9">>, req.h1, req.h2} :
          /\ verify_hmac_sha256(req.body, s) = "true"
          /\ verify_hmac_sha256(raw_body, s) = "true"

\* no secret, no signature header at all, and the request went through
C2_Witness ==
  /\ env.WEBHOOK_HMAC_SECRET = <<>> /\ req.h1 = None /\ req.h2 = None
  /\ verified = "true" /\ pc = "done" /\ resp.status = 200

EventMessages ==
  {"Webhook received", "Deposit confirmed", "Wallet confirmation received",
   "New block notification", "Other webhook type"}

HasEventLog == \E i \in 1..Len(log) : log[i].msg \in EventMessages

\* the bytes read are JSON text that is not an object
ReadNonObject == raw_body.text = "json" /\ raw_body.top.k # "dict"

\* the bytes read are not well-formed UTF-8 JSON text
ReadNotJson == raw_body.text # "json"

\* C3 as stated: the status of a finished request is that of the first
\* failing check in the order content type (415), declared size (413),
\* signature (401), JSON parse (400), non-object JSON (400).
C3_StatusOfFirstFailingCheck ==
  pc = "done" =>
     /\ ~content_type_ok(req) => resp.status = 415
     /\ (content_type_ok(req) /\ ~size_ok(req)) => resp.status = 413
     /\ verified \in {"false", "TypeError"} => resp.status = 401
     /\ (verified = "true" /\ raw_body.text \in {"bad_utf8", "blank", "malformed"})
          => resp.status = 400
     /\ (verified = "true" /\ ReadNonObject) => resp.status = 400

\* C4 as stated: once the body parsed to a JSON object the answer is 200
\* {"status":"OK"} and no fault occurs, whatever the fields hold.
C4_ObjectAlwaysAcknowledged ==
  (pc = "done" /\ IsDict(data)) =>
     resp = Resp(200, "status", "OK") /\ fault = ""

\* C5 as stated: a request that passed the content-type, size and signature
\* checks and whose body is not well-formed UTF-8 JSON text (empty and
\* invalid UTF-8 included) is answered 400 with a JSON error body, never 200
\* and never with a fault.
C5_NotJsonIs400 ==
  (pc = "done" /\ verified = "true" /\ ReadNotJson) =>
     resp.status = 400 /\ resp.key = "error" /\ fault = ""

\* C6: a request that passed the content-type, size and signature checks and
\* whose body is valid JSON but not an object is answered 400 and never
\* reaches classification: no event log entry is written for it.
C6_NonObjectIs400 ==
  (verified = "true" /\ ReadNonObject) =>
     /\ pc # "classify"
     /\ ~HasEventLog
     /\ pc = "done" => (resp = Resp(400, "error", "JSON object required") /\ fault = "")

\* a JSON array went through all checks and was answered 400
C6_Witness ==
  /\ pc = "done" /\ verified = "true" /\ HMAC_SECRET # <<>>
  /\ raw_body.top = J("list", "nonempty") /\ resp.status = 400

\* C7 as stated: a JSON request whose body exceeds the configured maximum is
\* answered 413 before the body is read; the read step is reached only after
\* both checks passed and nothing larger than the maximum is ever buffered,
\* whether or not a content length was declared.
C7_OversizedNeverRead ==
  /\ pc \in {"read", "verify", "parse", "isdict", "classify"}
       => (content_type_ok(req) /\ size_ok(req))
  /\ raw_body.len <= MAX_CONTENT_LENGTH
  /\ (pc = "done" /\ content_type_ok(req) /\ req.body.len > MAX_CONTENT_LENGTH)
       => (resp.status = 413 /\ fault = "")

\* C8: the signature verified is the X-Signature-SHA256 value, and the
\* X-Hub-Signature-256 value only when the first header supplies none; with
\* a secret, the correct signature in either header alone is accepted, no
\* header gives 401, and with both present the first alone decides.
C8_FirstHeaderDecides ==
  verified # "none" =>
     /\ (req.h1 # None /\ req.h1 # <<>>)
          => (sig = req.h1 /\ verified = verify_hmac_sha256(raw_body, req.h1))
     /\ (req.h1 \in {None, <<>>} /\ req.h2 # None)
          => (sig = req.h2 /\ verified = verify_hmac_sha256(raw_body, req.h2))
     /\ (HMAC_SECRET # <<>> /\ req.h1 \in {None, <<>>} /\ req.h2 = None)
          => (verified = "false" /\ resp.status = 401)
     /\ (HMAC_SECRET # <<>> /\ req.h1 = HexDigest(HMAC_SECRET, raw_body))
          => verified = "true"
     /\ (HMAC_SECRET # <<>> /\ req.h1 = None
           /\ req.h2 = <<"A", "=">> \o HexDigest(HMAC_SECRET, raw_body))
          => verified = "true"

\* both headers are sent, the first is wrong and the second is right: 401
C8_Witness ==
  /\ HMAC_SECRET # <<>> /\ pc = "done" /\ resp.status = 401
  /\ req.h1 = WrongDigest(HexDigest(HMAC_SECRET, raw_body))
  /\ req.h2 = <<"A", "=">> \o HexDigest(HMAC_SECRET, raw_body)

\* C9 as stated: with a secret configured, a request whose signature does
\* not verify never reaches parsing or event logging; every event log entry
\* follows a successful verification of the exact raw body; a failed
\* verification gives only the warning entry and a 401 that carry no
\* signature.
C9_UnverifiedNeverProcessed ==
  HMAC_SECRET # <<>> =>
     /\ (HasEventLog \/ pc \in {"parse", "isdict", "classify"} \/ data # NoData)
          => (verified = "true" /\ verify_hmac_sha256(raw_body, sig) = "true")
     /\ verified \in {"false", "TypeError"} =>
          /\ pc = "done" /\ data = NoData
          /\ log = <<LogEntry("warning", "Webhook signature verification failed", <<>>)>>
          /\ resp = Resp(401, "error", "Invalid signature")

\* the event branch src/app.py took for the request
AppBranch ==
  IF pc = "done" /\ IsDict(data)
  THEN event_branch(Get(data.type), Get(data.state)) ELSE ""

\* C10 as stated: on a request with a JSON content type, a body within the
\* size limit and no secret configured, src/main.py and src/app.py return
\* the same status (200 for every JSON object, 400 for malformed or
\* non-object JSON) and take the same event branch.
C10_ImplementationsAgree ==
  (/\ pc = "done" /\ m_done /\ HMAC_SECRET = <<>>
   /\ IsJsonMimetype(req.ctype) /\ content_type_ok(req)
   /\ req.content_length # NoLength /\ req.body.len <= MAX_CONTENT_LENGTH) =>
     /\ resp.status = m_resp.status
     /\ AppBranch = m_branch
     /\ (req.body.text = "json" /\ req.body.top.k = "dict") => resp.status = 200
     /\ ~(req.body.text = "json" /\ req.body.top.k = "dict") => resp.status = 400

====
